---- MODULE Spec2Model ----
(***************************************************************************)
(* Textile-store chatbot: the rule-based fallback responder, the sentiment *)
(* thresholds, the /api/chat handler of the Flask server (app.py) and the  *)
(* submit handler of the Tk desktop client (main.py).                      *)
(*                                                                         *)
(* Python strings are modelled as TLA+ strings, read character by          *)
(* character through Chars; the characters outside ASCII of the source's   *)
(* literals (two dashes, one emoji) are written as ASCII here, since they  *)
(* are only ever compared as whole replies.  Floats that are ratios of     *)
(* small integers are kept as exact fractions <<numerator, denominator>>.  *)
(***************************************************************************)
EXTENDS Integers, Sequences, FiniteSets, TLC

(***************************************************************************)
(* str primitives                                                          *)
(***************************************************************************)

\* A Python str as the sequence of its one-character strings.
Chars(s) == [i \in 1..Len(s) |-> SubSeq(s, i, i)]

\* The str made of a sequence of characters ("".join).
RECURSIVE Str(_)
Str(cs) ==
  IF Len(cs) = 0 THEN ""
  ELSE IF Len(cs) = 1 THEN cs[1]
  ELSE Str(SubSeq(cs, 1, Len(cs) \div 2))
         \o Str(SubSeq(cs, Len(cs) \div 2 + 1, Len(cs)))

UpperLetters == Chars("ABCDEFGHIJKLMNOPQRSTUVWXYZ")
LowerLetters == Chars("abcdefghijklmnopqrstuvwxyz")

\* The printable ASCII characters in code-point order, in four runs: from
\* 32 (space), from 35 (#), from 93 (]) and from 97 (a); the double quote
\* (34), the backslash (92) and the grave accent (96) are not in the
\* alphabet of the model.
Printable32 == Chars(" !")
Printable35 ==
  Chars("#$%&'()*+,-./0123456789:;<=>?@ABCDEFGHIJKLMNOPQRSTUVWXYZ[")
Printable93 == Chars("]^_")
Printable97 == Chars("abcdefghijklmnopqrstuvwxyz{|}~")

IndexOf(cs, c) == CHOOSE i \in 1..Len(cs) : cs[i] = c
Has(cs, c) == \E i \in 1..Len(cs) : cs[i] = c

\* ord(c) for the characters of the model.
CodePoint(c) ==
  IF c = "\t" THEN 9
  ELSE IF c = "\n" THEN 10
  ELSE IF Has(Printable32, c) THEN 31 + IndexOf(Printable32, c)
  ELSE IF Has(Printable35, c) THEN 34 + IndexOf(Printable35, c)
  ELSE IF Has(Printable93, c) THEN 92 + IndexOf(Printable93, c)
  ELSE 96 + IndexOf(Printable97, c)

\* The characters str.strip() removes (those of the model's alphabet).
Whitespace == {" ", "\t", "\n"}

\* str.lower() and str.upper() on the letters.
ToLower == [c \in {UpperLetters[i] : i \in 1..26} |->
              LowerLetters[IndexOf(UpperLetters, c)]]
ToUpper == [c \in {LowerLetters[i] : i \in 1..26} |->
              UpperLetters[IndexOf(LowerLetters, c)]]

\* str.lower() / str.upper() on one character.
LowerChar(c) == IF c \in DOMAIN ToLower THEN ToLower[c] ELSE c
UpperChar(c) == IF c \in DOMAIN ToUpper THEN ToUpper[c] ELSE c

\* str.lower() / str.upper() on a character sequence.
Lower(cs) == [i \in 1..Len(cs) |-> LowerChar(cs[i])]
Upper(cs) == [i \in 1..Len(cs) |-> UpperChar(cs[i])]

\* The first index at or after i, and the last at or before i, of a
\* character that is not whitespace.
RECURSIVE FirstSolid(_, _)
FirstSolid(cs, i) ==
  IF i > Len(cs) \/ cs[i] \notin Whitespace THEN i ELSE FirstSolid(cs, i + 1)
RECURSIVE LastSolid(_, _)
LastSolid(cs, i) ==
  IF i < 1 \/ cs[i] \notin Whitespace THEN i ELSE LastSolid(cs, i - 1)

\* str.strip(): drop the leading and the trailing whitespace.
Strip(cs) == SubSeq(cs, FirstSolid(cs, 1), LastSolid(cs, Len(cs)))

\* `word in key`: word occurs in key as a contiguous substring.
Contains(key, word) ==
  \E i \in 0..(Len(key) - Len(word)) :
     \A j \in 1..Len(word) : key[i + j] = word[j]

\* x < y on str: lexicographic by code point.
StrLess(x, y) ==
  LET shorter == IF Len(x) <= Len(y) THEN Len(x) ELSE Len(y)
      differ  == {i \in 1..shorter : x[i] # y[i]}
      first   == CHOOSE i \in differ : \A j \in differ : i <= j
  IN  IF differ = {} THEN Len(x) < Len(y)
      ELSE CodePoint(x[first]) < CodePoint(y[first])

(***************************************************************************)
(* difflib (standard library), as get_close_matches uses it: no junk       *)
(* function, and the automatic junk heuristic is off below 200 characters. *)
(* Sequences are indexed from 0 as in the library: element i is s[i + 1].  *)
(***************************************************************************)

\* Length of the common run of a[i:ahi] and b[j:bhi] starting at (i, j):
\* up to the first place where they differ or one of them ends.
RunLen(a, b, i, j, ahi, bhi) ==
  LET room  == IF ahi - i <= bhi - j THEN ahi - i ELSE bhi - j
      stops == {n \in 0..(room - 1) : a[i + n + 1] # b[j + n + 1]}
  IN  IF stops = {} THEN room
      ELSE CHOOSE n \in stops : \A m \in stops : n <= m

\* The places where a common run of a[alo:ahi] and b[blo:bhi] starts.
RunStarts(a, b, alo, ahi, blo, bhi) ==
  {s \in (alo..(ahi - 1)) \X (blo..(bhi - 1)) :
      /\ a[s[1] + 1] = b[s[2] + 1]
      /\ s[1] = alo \/ s[2] = blo \/ a[s[1]] # b[s[2]]}

\* The common runs of a[alo:ahi] and b[blo:bhi] as Match(a, b, size).
Blocks(a, b, alo, ahi, blo, bhi) ==
  {[a |-> s[1], b |-> s[2], size |-> RunLen(a, b, s[1], s[2], ahi, bhi)] :
      s \in RunStarts(a, b, alo, ahi, blo, bhi)}

\* The order find_longest_match prefers blocks in: the longer, then the
\* one starting earlier in a, then the one starting earlier in b.
Prefer(m, n) ==
  \/ m.size > n.size
  \/ m.size = n.size /\ m.a < n.a
  \/ m.size = n.size /\ m.a = n.a /\ m.b <= n.b

BestBlock(blocks, alo, blo) ==
  IF blocks = {} THEN [a |-> alo, b |-> blo, size |-> 0]
  ELSE CHOOSE m \in blocks : \A n \in blocks : Prefer(m, n)

\* SequenceMatcher.find_longest_match: the longest block common to
\* a[alo:ahi] and b[blo:bhi]; of the longest, the one starting earliest in
\* a, and of those the one starting earliest in b.  The longest block
\* starts where a common run starts, so only those places are measured.
find_longest_match(a, b, alo, ahi, blo, bhi) ==
  BestBlock(Blocks(a, b, alo, ahi, blo, bhi), alo, blo)

\* SequenceMatcher.get_matching_blocks, summed: the number of matched
\* characters, found by splitting around the longest block recursively.
RECURSIVE Matches(_, _, _, _, _, _)
RECURSIVE MatchesAround(_, _, _, _, _, _, _)
MatchesAround(a, b, alo, ahi, blo, bhi, m) ==
  IF m.size = 0 THEN 0
  ELSE m.size
       + Matches(a, b, alo, m.a, blo, m.b)
       + Matches(a, b, m.a + m.size, ahi, m.b + m.size, bhi)

Matches(a, b, alo, ahi, blo, bhi) ==
  IF alo >= ahi \/ blo >= bhi THEN 0
  ELSE MatchesAround(a, b, alo, ahi, blo, bhi,
                     find_longest_match(a, b, alo, ahi, blo, bhi))

\* _calculate_ratio: 2.0 * matches / length, 1.0 when both are empty.
calculate_ratio(matches, length) ==
  IF length > 0 THEN <<2 * matches, length>> ELSE <<1, 1>>

\* p >= q on fractions with positive denominators.
FracGeq(p, q) == p[1] * q[2] >= q[1] * p[2]
FracEq(p, q)  == p[1] * q[2] = q[1] * p[2]

\* SequenceMatcher.ratio
ratio(a, b) ==
  calculate_ratio(Matches(a, b, 0, Len(a), 0, Len(b)), Len(a) + Len(b))

Count(s, c) == Cardinality({i \in 1..Len(s) : s[i] = c})

Min(x, y) == IF x <= y THEN x ELSE y

\* SequenceMatcher.quick_ratio: the multiset intersection of the
\* characters; an element of a counts while occurrences of it in b remain.
quick_ratio(a, b) ==
  calculate_ratio(
    Cardinality({i \in 1..Len(a) :
                   Count(SubSeq(a, 1, i), a[i]) <= Count(b, a[i])}),
    Len(a) + Len(b))

\* SequenceMatcher.real_quick_ratio
real_quick_ratio(a, b) ==
  calculate_ratio(Min(Len(a), Len(b)), Len(a) + Len(b))

\* The candidates that pass the two cheap upper bounds of the ratio.
QuickPass(word, possibilities, cutoff) ==
  {x \in possibilities :
      /\ FracGeq(real_quick_ratio(x, word), cutoff)
      /\ FracGeq(quick_ratio(x, word), cutoff)}

\* The (score, candidate) tuples of those whose ratio reaches the cutoff.
Scored(word, candidates, cutoff) ==
  {t \in {<<ratio(x, word), x>> : x \in candidates} : FracGeq(t[1], cutoff)}

\* t >= u on (score, candidate) tuples.
TupleGeq(t, u) ==
  \/ ~FracGeq(u[1], t[1])
  \/ FracEq(t[1], u[1]) /\ (t[2] = u[2] \/ StrLess(u[2], t[2]))

\* heapq.nlargest(1, result), candidates only.
nlargest(result) ==
  IF result = {} THEN <<>>
  ELSE <<(CHOOSE t \in result : \A u \in result : TupleGeq(t, u))[2]>>

\* get_close_matches(word, possibilities, n=1, cutoff): the candidates that
\* pass the three tests with their scores, then heapq.nlargest(1, ...),
\* which is max() over the (score, candidate) tuples: the best score, and
\* among equal scores the candidate that is greatest as a str.
get_close_matches(word, possibilities, cutoff) ==
  nlargest(Scored(word, QuickPass(word, possibilities, cutoff), cutoff))

(***************************************************************************)
(* app.py: the conversation list and the fallback responder                *)
(***************************************************************************)

CONVERSATION ==
  <<
    "Hello",
        "Hello! Welcome to our textile and clothing store. How may I assist you today?",
    "Hi",
        "Hi there! How can I help you with fabrics or clothing today?",
    "Good morning",
        "Good morning! How can I support you with your textile needs today?",
    "Good afternoon",
        "Good afternoon! How may I assist you?",
    "What are the latest clothing trends?",
        "Current trends include breathable fabrics like cotton and linen, oversized fits, pastel colors, and sustainable eco-friendly materials.",
    "What are the latest textile trends?",
        "Popular textile trends include organic fabrics, textured weaves, geometric patterns, digital prints, and soft-tone dyeing techniques.",
    "What about textile patterns?",
        "Floral prints, geometric motifs, minimalistic stripes, and classy jacquard textures are trending this season.",
    "What fabrics do you recommend?",
        "I recommend organic cotton for comfort, linen blends for summer wear, and OEKO-TEX certified materials for safe and sustainable clothing.",
    "Which fabric is best for summer?",
        "For summer, lightweight cotton, linen, and rayon fabrics are excellent due to their breathability and soft texture.",
    "Which fabric is best for winter?",
        "For winter, wool, fleece, heavy cotton, and flannel are highly suitable for warmth and comfort.",
    "Do you offer custom tailoring?",
        "Yes, we offer tailoring for selected items. Please share your measurements or preferred fit for assistance.",
    "Do you provide size guidance?",
        "Yes, we do! We offer sizes from XS to XXL, and I can help you choose the best fit based on your body measurements.",
    "What sizes do you offer?",
        "We offer sizes XS, S, M, L, XL, and XXL. For detailed measurements, please check our size chart.",
    "Can I return an item?",
        "Yes, items can be returned within 30 days, provided they are unused and have original tags attached.",
    "How do I return an item?",
        "To return an item, simply submit a return request through your order history or contact our support team. We will guide you through the steps.",
    "Do you accept exchanges?",
        "Yes, we accept exchanges within 30 days. The item should be unused and in its original condition.",
    "What payment methods do you accept?",
        "We accept credit cards, debit cards, UPI, PayPal, and net banking. For bulk orders, bank transfers are also supported.",
    "Do you offer discounts?",
        "Yes, we frequently offer seasonal sales, promotional codes, and special offers for loyalty members.",
    "Are there any ongoing offers?",
        "Currently, we have discounts on selected cotton fabrics and a 10% promotion on all linen products.",
    "Do you offer wholesale or bulk pricing?",
        "Yes, we do! For bulk or wholesale orders, please provide your quantity and we will share a customized quotation.",
    "Do you offer international shipping?",
        "Yes, we ship internationally. Charges and delivery times vary by location.",
    "How long does delivery take?",
        "Standard delivery takes 4-7 days, while express delivery takes 1-3 days depending on your region.",
    "What is your shipping policy?",
        "We offer free shipping on selected orders and charge a small fee for express delivery. Shipping details are shown at checkout.",
    "Is COD available?",
        "Yes, Cash on Delivery is available for select regions and order values.",
    "Are your fabrics sustainable?",
        "Yes, we offer a wide range of sustainable fabrics, including organic cotton, bamboo fabrics, and recycled polyester blends.",
    "How should I wash cotton fabric?",
        "For cotton fabrics, use mild detergent and cold water. Avoid direct sunlight for drying if you want to preserve color.",
    "How should I wash linen?",
        "Wash linen with gentle detergent in lukewarm water. Avoid harsh rubbing to maintain fabric texture.",
    "Do your fabrics shrink?",
        "Some natural fabrics like cotton and linen may have slight shrinkage. We recommend pre-washing before tailoring.",
    "Can I track my order?",
        "Yes, after placing your order, you will receive a tracking link via email or SMS.",
    "Do you provide sample swatches?",
        "Yes, we offer fabric swatches for selected materials so you can check texture and color before purchasing.",
    "Can you recommend a fabric for formal wear?",
        "For formal wear, we suggest premium cotton, satin blends, silk blends, and wrinkle-resistant fabrics.",
    "Can you recommend a fabric for kids?",
        "For kids, soft and breathable fabrics like cotton, jersey knit, and bamboo fabric are ideal.",
    "Thank you",
        "You're welcome! If you need any more help, feel free to ask.",
    "Thanks",
        "My pleasure! Let me know if you have any other questions.",
    "Goodbye",
        "Goodbye! Have a great day and feel free to visit again."
  >>

\* Cutoff raised to 0.7, and lowered to 0.
Cutoff_Higher == <<7, 10>>
Cutoff_Zero == <<0, 10>>

\* cutoff=0.6 of the get_close_matches call.
Cutoff == <<6, 10>>

\* range(0, len(conv), 2): every prompt, the unpaired last one included.
PairStarts_ToEnd(conv) == {i \in 0..(Len(conv) - 1) : i % 2 = 0}

\* range(0, len(conv) - 1, 2): the index of each prompt that has a
\* response after it.
PairStarts(conv) == {i \in 0..(Len(conv) - 2) : i % 2 = 0}

\* CONVERSATION[i].strip().lower(): a prompt as the key of the mapping.
PromptKey(prompt) == Lower(Strip(Chars(prompt)))

\* Whether the loop that builds the mapping reads CONVERSATION[i+1] past
\* the end of the list (IndexError).
BuildRaises(conv) == \E i \in PairStarts(conv) : i + 2 > Len(conv)

\* The mapping built at the head of fallback_get_response: prompt,
\* stripped and lower-cased -> response; a later pair overwrites an
\* earlier one with the same key.
BuildMapping(conv) ==
  LET starts == PairStarts(conv)
      k      == [i \in starts |-> PromptKey(conv[i + 1])]
      last(key) == CHOOSE i \in starts :
                      /\ k[i] = key
                      /\ \A j \in starts : k[j] = key => j <= i
  IN  [key \in {k[i] : i \in starts} |-> conv[last(key) + 2]]

\* key = user_text.lower(), the strip forgotten.
UserKey_NoStrip(user_text) == Lower(Chars(user_text))

\* key = user_text.strip().lower()
UserKey(user_text) == Lower(Strip(Chars(user_text)))

\* dict.get(key, default)
Get(mapping, key, default) ==
  IF key \in DOMAIN mapping THEN mapping[key] ELSE default

GreetingWords == {Chars("hi"), Chars("hello"), Chars("hey")}
ThanksWords == {Chars("thank"), Chars("thanks")}
ReturnWords == {Chars("return"), Chars("refund")}
ReturnPolicy ==
  "Yes, items can be returned within 30 days, provided they are unused and have original tags attached."
Apology ==
  "Sorry - I don't have a precise answer for that yet. Could you rephrase or ask about fabrics, sizes, orders, or returns?"

\* The chain with the thanks test moved before the greeting test.
KeywordRule_ThanksFirst(key) ==
  IF \E word \in {Chars("thank"), Chars("thanks")} : Contains(key, word)
    THEN "thanks"
  ELSE IF \E word \in {Chars("hi"), Chars("hello"), Chars("hey")} :
            Contains(key, word)
    THEN "greeting"
  ELSE IF \E word \in {Chars("return"), Chars("refund")} : Contains(key, word)
    THEN "return"
  ELSE "generic"

\* The "common fallbacks" chain of if statements and the last resort:
\* which one returns for a key that matched nothing in the mapping.
KeywordRule(key) ==
  IF \E word \in GreetingWords : Contains(key, word) THEN "greeting"
  ELSE IF \E word \in ThanksWords : Contains(key, word) THEN "thanks"
  ELSE IF \E word \in ReturnWords : Contains(key, word) THEN "return"
  ELSE "generic"

\* What each of those returns.
KeywordReply(mapping, rule) ==
  CASE rule = "greeting" -> Get(mapping, Chars("hello"), "Hello!")
    [] rule = "thanks"   -> Get(mapping, Chars("thank you"), "You're welcome!")
    [] rule = "return"   -> Get(mapping, Chars("can i return an item?"), ReturnPolicy)
    [] OTHER             -> Apology

\* The "common fallbacks" and the last resort, for a key that matched
\* nothing in the mapping.
KeywordResponse(mapping, rule) ==
  [rule |-> rule, reply |-> KeywordReply(mapping, rule)]

\* From the close-match test on: close is what get_close_matches returned.
CloseResponse(mapping, key, close) ==
  IF close # <<>>
    THEN [rule |-> "fuzzy", reply |-> mapping[close[1]]]
  ELSE KeywordResponse(mapping, KeywordRule(key))

\* From the exact-match test on.
KeyResponse(mapping, key) ==
  IF key \in DOMAIN mapping
    THEN [rule |-> "exact", reply |-> mapping[key]]
  ELSE CloseResponse(mapping, key,
                     get_close_matches(key, DOMAIN mapping, Cutoff))

\* The body of fallback_get_response after the mapping is built: the rule
\* that returned and the reply it returned.
Respond(mapping, user_text) == KeyResponse(mapping, UserKey(user_text))

\* What leaves a call that raised.
Raised(error) == [rule |-> "raise", reply |-> error]

\* fallback_get_response with the list it reads as a parameter.
RespondFrom(conv, user_text) ==
  IF BuildRaises(conv) THEN Raised("IndexError")
  ELSE Respond(BuildMapping(conv), user_text)

\* The mapping every call builds from the module's CONVERSATION.
Mapping == BuildMapping(CONVERSATION)

\* fallback_get_response(user_text) of app.py.
fallback_get_response(user_text) ==
  IF BuildRaises(CONVERSATION) THEN Raised("IndexError")
  ELSE Respond(Mapping, user_text)

(***************************************************************************)
(* main.py: the fallback responder of the desktop client                   *)
(***************************************************************************)

\* The literal mapping of main.py's fallback_get_response.
GuiMapping ==
  LET pairs ==
    << <<"hello", "Hello! Welcome to our textile and clothing store. How may I assist you today?">>,
       <<"hi", "Hi there! How can I help you with fabrics or clothing today?">>,
       <<"what are the latest clothing trends?", "Current trends include breathable fabrics like cotton and linen, oversized fits, pastel colors, and sustainable eco-friendly materials.">>,
       <<"which fabric is best for summer?", "For summer, lightweight cotton, linen, and rayon fabrics are excellent due to their breathability and soft texture.">>,
       <<"thank you", "You're welcome! If you need any more help, feel free to ask.">>,
       <<"thanks", "My pleasure! Let me know if you have any other questions.">>,
       <<"goodbye", "Goodbye! Have a great day and feel free to visit again.">> >>
  IN  [key \in {Chars(pairs[i][1]) : i \in 1..Len(pairs)} |->
         pairs[CHOOSE i \in 1..Len(pairs) : Chars(pairs[i][1]) = key][2]]

GuiApology ==
  "Sorry, I don't have an answer for that yet. Could you try rephrasing?"

\* fallback_get_response(text_input) of main.py.
gui_fallback_get_response(text_input) ==
  Get(GuiMapping, Lower(Strip(Chars(text_input))), GuiApology)

(***************************************************************************)
(* Sentiment: the thresholds of app.py and of main.py.  The compound score *)
(* of VADER, a float in [-1, 1], is counted in steps of 1/ScoreSteps.      *)
(***************************************************************************)

ScoreSteps == 100

\* compound > 0.5: the boundary left to Neutral.
AtLeastHalf_Strict(compound) == 2 * compound > ScoreSteps

\* compound >= 0.5 and compound <= -0.5, on a score counted in steps.
AtLeastHalf(compound) == 2 * compound >= ScoreSteps
AtMostMinusHalf(compound) == 2 * compound <= -ScoreSteps

\* The dict sia.polarity_scores returns: its compound entry (the entries
\* neg, neu and pos are only passed on).
Scores(compound) == [compound |-> compound]

\* analyze_sentiment of app.py, on the scores of the text.
analyze_sentiment(scores) ==
  LET compound == scores.compound
      label == IF AtLeastHalf(compound) THEN "Positive"
               ELSE IF AtMostMinusHalf(compound) THEN "Negative"
               ELSE "Neutral"
  IN  [label |-> label, score |-> compound, details |-> scores]

\* get_sentiment_label of main.py, on the scores of the text.
get_sentiment_label(scores) ==
  LET compound == scores.compound
  IN  IF AtLeastHalf(compound) THEN <<"Positive", compound>>
      ELSE IF AtMostMinusHalf(compound) THEN <<"Negative", compound>>
      ELSE <<"Neutral", compound>>

(***************************************************************************)
(* State                                                                   *)
(***************************************************************************)

VARIABLES
  conversation,  \* the list fallback_get_response of app.py reads
  user_text,     \* the argument of a call of the fallback responders
  result,        \* what app.py's responder returned for it: rule and reply
  gui_result,    \* what main.py's responder returned for it, or "none"
  scores,        \* the scores of a text, as the scorer returned them
  web_sentiment, \* what analyze_sentiment returned for them
  gui_sentiment, \* what get_sentiment_label returned for them
  use_chatterbot, \* app.py: the chatterbot import and init succeeded
  bot,           \* app.py: the ChatBot instance, or "None"
  request,       \* the body of the POST /api/chat being served
  env,           \* what the scorer and the bot answer during that request
  response,      \* the response of chat_api to it
  calls,         \* the calls chat_api made while serving it
  gui_bot,       \* main.py: the ChatBot instance, or "None"
  entry,         \* main.py: the content of the Entry widget
  gui_env,       \* what the scorer, the bot and random.choice answer
  msgs,          \* main.py: the rows of the Listbox
  server,        \* app.py: "up" once the module has been imported
  trainer,       \* app.py: the ListTrainer instance, or "None"
  flag_file,     \* the file TRAIN_FLAG of app.py exists
  gui_flag_file, \* the file TRAIN_FLAG of main.py exists
  log            \* the starts and POST /train so far, with what each did

responderVars == <<conversation, user_text, result, gui_result>>
sentimentVars == <<scores, web_sentiment, gui_sentiment>>
webVars == <<use_chatterbot, bot, request, env, response, calls>>
guiVars == <<gui_bot, entry, gui_env, msgs>>
trainVars == <<server, trainer, flag_file, gui_flag_file, log>>
vars == <<responderVars, sentimentVars, webVars, guiVars, trainVars>>

(***************************************************************************)
(* app.py: POST /api/chat                                                  *)
(***************************************************************************)

\* The values of a field of the JSON body: a string, a number, or null
\* (which is also what dict.get returns for a field that is absent).
JStr(text) == [type |-> "str", v |-> text]
JNum(digits) == [type |-> "num", v |-> digits]
Absent == [type |-> "null", v |-> ""]

\* bool(x) of such a value.
Truthy(x) ==
  CASE x.type = "str" -> x.v # ""
    [] x.type = "num" -> x.v # "0"
    [] OTHER          -> FALSE

\* x or y
Or(x, y) == IF Truthy(x) THEN x ELSE y

\* request.get_json(force=True, silent=True) or {}: the body parsed, with
\* {} for a body that is no JSON or a falsy JSON value.
GetJson(body) ==
  IF body.kind = "falsy"
  THEN [kind |-> "dict", message |-> Absent, text |-> Absent]
  ELSE body

\* data.get("message") or data.get("text") or ""
Picked(data) == Or(Or(data.message, data.text), JStr(""))

\* (...).strip() of the picked value, a str.
UserMsg(picked) == Str(Strip(Chars(picked.v)))

\* None, as the value of reply_text.
None == "<None>"

NoSentiment == [label |-> "none", score |-> 0, details |-> Scores(0)]
NoResponse ==
  [status |-> 0, error |-> "", reply |-> "", sentiment |-> NoSentiment]

\* jsonify({"error": "no message provided"}), 400
BadRequest ==
  [status |-> 400, error |-> "no message provided", reply |-> "",
   sentiment |-> NoSentiment]

\* The except clause of chat_api: jsonify({"error": "internal server
\* error", ...}), 500
ServerError ==
  [status |-> 500, error |-> "internal server error", reply |-> "",
   sentiment |-> NoSentiment]

\* jsonify({"reply": reply_text, "sentiment": sentiment})
Ok(reply_text, sentiment) ==
  [status |-> 200, error |-> "", reply |-> reply_text,
   sentiment |-> sentiment]

Call(fn, arg) == [fn |-> fn, arg |-> arg]

\* The fallback's part of "Get reply": the calls made before and this
\* one, its reply, and whether it raised.
FallbackReply(before, user_msg, fallback) ==
  [calls  |-> before \o <<Call("fallback_get_response", user_msg)>>,
   reply  |-> IF fallback.rule = "raise" THEN None ELSE fallback.reply,
   raised |-> fallback.rule = "raise"]

\* "Get reply" without the inner try: an exception of get_response leaves
\* the block with reply_text still None.
GetReply_NoRecovery(user_msg, e) ==
  IF use_chatterbot /\ bot # "None"
  THEN [calls  |-> <<Call("get_response", user_msg)>>,
        reply  |-> IF e.bot_raises THEN None ELSE e.bot_answer,
        raised |-> e.bot_raises]
  ELSE FallbackReply(<<>>, user_msg, fallback_get_response(user_msg))

\* "Get reply": the bot's answer when chatterbot is in use and
\* get_response returns, the fallback's reply when it is not in use or
\* get_response raises.  The calls made, the reply, and whether an
\* exception leaves the block.
GetReply(user_msg, e) ==
  IF use_chatterbot /\ bot # "None" /\ ~e.bot_raises
  THEN [calls  |-> <<Call("get_response", user_msg)>>,
        reply  |-> e.bot_answer,
        raised |-> FALSE]
  ELSE FallbackReply(IF use_chatterbot /\ bot # "None"
                     THEN <<Call("get_response", user_msg)>>
                     ELSE <<>>,
                     user_msg, fallback_get_response(user_msg))

\* chat_api from the sentiment analysis on, for a message that is not
\* empty: got is what "Get reply" gave.
Served(user_msg, e, got) ==
  [response |-> IF got.raised THEN ServerError
                ELSE Ok(got.reply, analyze_sentiment(Scores(e.compound))),
   calls    |-> <<Call("analyze_sentiment", user_msg)>> \o got.calls]

\* chat_api from the emptiness test on.
Accepted(user_msg, e) ==
  IF user_msg = "" THEN [response |-> BadRequest, calls |-> <<>>]
  ELSE Served(user_msg, e, GetReply(user_msg, e))

\* chat_api from the .strip() on: picked is the value .strip() is called
\* on, which raises on a value that is no str.
Stripped(picked, e) ==
  IF picked.type # "str" THEN [response |-> ServerError, calls |-> <<>>]
  ELSE Accepted(UserMsg(picked), e)

\* chat_api from the two data.get on: data is the parsed body, and
\* data.get raises on a value that is no dict.
Parsed(data, e) ==
  IF data.kind # "dict" THEN [response |-> ServerError, calls |-> <<>>]
  ELSE Stripped(Picked(data), e)

\* chat_api on a body, with what the scorer and the bot answer: the
\* response and the calls made.
ChatApi(body, e) == Parsed(GetJson(body), e)

(***************************************************************************)
(* main.py: the submit handler of the desktop client                       *)
(***************************************************************************)

\* The remarks; the emoji that ends the first positive one is left out.
NEGATIVE_PROMPTS ==
  <<"I'm sorry to hear that - can I help make it right?",
    "That sounds frustrating. Tell me more so I can assist.",
    "I understand - would you like to speak to support or get a return?">>

POSITIVE_PROMPTS ==
  <<"That's great! Glad you liked it",
    "Awesome! Would you like recommendations based on that?",
    "Happy to hear that - I can suggest similar items.">>

\* choose_sentiment_reply, with the index random.choice draws.
choose_sentiment_reply(label, choice) ==
  IF label = "Negative" THEN NEGATIVE_PROMPTS[choice]
  ELSE IF label = "Positive" THEN POSITIVE_PROMPTS[choice]
  ELSE None

\* The label and score shown after a message; NoTag for sentiment=None.
NoTag == <<"none", 0>>

\* insert_message: the row of the message, with the sentiment it is
\* tagged with, and the separator row.
insert_message(sender, message, sentiment) ==
  <<[sender |-> sender, message |-> message, tag |-> sentiment],
    [sender |-> "", message |-> "------------------------------",
     tag |-> NoTag]>>

\* The try block of ask_from_bot: the reply, and whether getting it raised.
GuiReply(user_input, e) ==
  IF gui_bot # "None"
  THEN [reply |-> e.bot_answer, raised |-> e.bot_raises]
  ELSE [reply |-> gui_fallback_get_response(user_input), raised |-> FALSE]

\* final_reply: the remark, a newline and the reply, or the reply alone.
FinalReply(pref, reply) ==
  IF pref # None THEN pref \o "\n" \o reply ELSE reply

\* The Bot rows: the reply found in the try block with the remark and the
\* tag, or what the except clause inserts.
BotRows(user_input, e, sentiment, got) ==
  IF got.raised
  THEN insert_message("Bot", gui_fallback_get_response(user_input), NoTag)
  ELSE insert_message("Bot",
         FinalReply(choose_sentiment_reply(sentiment[1], e.choice), got.reply),
         sentiment)

\* ask_from_bot from the emptiness test on.
Submitted(user_input, e, sentiment) ==
  IF user_input = "" THEN <<>>
  ELSE insert_message("You", user_input, sentiment)
       \o BotRows(user_input, e, sentiment, GuiReply(user_input, e))

\* ask_from_bot on the content of the entry: the rows it adds.
AskFromBot(text, e) ==
  Submitted(Str(Strip(Chars(text))), e,
            get_sentiment_label(Scores(e.compound)))

(***************************************************************************)
(* The fallback responders called directly, on every kind of input         *)
(***************************************************************************)

\* Bounds of the inputs.
MaxPad == 1
MaxListLen == 4

PromptIndexes == 1..(Len(CONVERSATION) \div 2)
PromptAt(p) == CONVERSATION[2 * p - 1]
ResponseAt(p) == CONVERSATION[2 * p]

WhitespaceCycle == <<" ", "\t", "\n">>
Padding(n) == [i \in 1..n |-> WhitespaceCycle[((i - 1) % 3) + 1]]

\* Every prompt of the list, as written, in upper case and in lower case,
\* with up to MaxPad whitespace characters on either side.
Variations ==
  {Str(Padding(l) \o cs \o Padding(r)) :
     cs \in UNION {{Chars(PromptAt(p)), Upper(Chars(PromptAt(p))),
                    Lower(Chars(PromptAt(p)))} : p \in PromptIndexes},
     l \in 0..MaxPad, r \in 0..MaxPad}

\* Inputs that are no prompt: empty and blank ones, near misses of a
\* prompt, and sentences with and without the keywords.
Probes ==
  {"", " ", " \t ", "hola", "xyz", "thx", "ho", "h", "helo", "hel", "hii",
   "hill", "hallo", "HELLO!", "hey", "bye", "goodby", "Good evening",
   "Thanks!", "thank", "no thank", "thank u so much", "do you offer",
   "is cod availble", "how long is delivery", "hi-res fabric", "shipping",
   "what is this thing", "hey there, thanks a lot", "oh hey, thanks!!",
   "this is bad, refund me", "many thanks and a refund", "i want a refund",
   "refund please", "return", "RETURN POLICY", "  Many THANKS and more "}

Inputs == Variations \cup Probes

\* No call made yet.
NoResult == [rule |-> "none", reply |-> ""]
NoLabel == <<"none", 0>>
NoBody == [kind |-> "none", message |-> Absent, text |-> Absent]
NoEnv == [compound |-> 0, bot_raises |-> FALSE, bot_answer |-> ""]
NoGuiEnv ==
  [compound |-> 0, bot_raises |-> FALSE, bot_answer |-> "", choice |-> 1]

\* The parts of the state a specification does not use stay as they are
\* here.
ResponderIdle ==
  /\ conversation = CONVERSATION
  /\ user_text = ""
  /\ result = NoResult
  /\ gui_result = "none"

SentimentIdle ==
  /\ scores = Scores(0)
  /\ web_sentiment = NoSentiment
  /\ gui_sentiment = NoLabel

WebIdle ==
  /\ use_chatterbot = FALSE
  /\ bot = "None"
  /\ request = NoBody
  /\ env = NoEnv
  /\ response = NoResponse
  /\ calls = <<>>

GuiIdle ==
  /\ gui_bot = "None"
  /\ entry = ""
  /\ gui_env = NoGuiEnv
  /\ msgs = <<>>

TrainIdle ==
  /\ server = "down"
  /\ trainer = "None"
  /\ flag_file = FALSE
  /\ gui_flag_file = FALSE
  /\ log = <<>>

InitResponder ==
  /\ conversation = CONVERSATION
  /\ user_text \in Inputs
  /\ result = NoResult
  /\ gui_result = "none"
  /\ SentimentIdle /\ WebIdle /\ GuiIdle /\ TrainIdle

\* A call of app.py's fallback_get_response.
AppFallback ==
  /\ result = NoResult
  /\ result' = fallback_get_response(user_text)
  /\ UNCHANGED <<conversation, user_text, gui_result>>
  /\ UNCHANGED <<sentimentVars, webVars, guiVars, trainVars>>

\* A call of main.py's fallback_get_response.
GuiFallback ==
  /\ gui_result = "none"
  /\ gui_result' = gui_fallback_get_response(user_text)
  /\ UNCHANGED <<conversation, user_text, result>>
  /\ UNCHANGED <<sentimentVars, webVars, guiVars, trainVars>>

NextResponder == AppFallback \/ GuiFallback

SpecResponder == InitResponder /\ [][NextResponder]_vars

(***************************************************************************)
(* The mapping built from other lists than the module's                    *)
(***************************************************************************)

\* The lists: up to MaxListLen consecutive elements of CONVERSATION,
\* starting at any prompt.
Slices ==
  UNION {{SubSeq(CONVERSATION, 2 * p - 1, 2 * p - 2 + n) :
            n \in 1..Min(MaxListLen, Len(CONVERSATION) - 2 * p + 2)} :
         p \in PromptIndexes}

\* The elements of a list at the prompt positions.
PromptsOf(conv) == {conv[i] : i \in {j \in 1..Len(conv) : j % 2 = 1}}

InitBuilder ==
  /\ conversation \in Slices
  /\ user_text \in PromptsOf(conversation) \cup {"hola"}
  /\ result = NoResult
  /\ gui_result = "none"
  /\ SentimentIdle /\ WebIdle /\ GuiIdle /\ TrainIdle

\* A call of app.py's fallback_get_response with CONVERSATION bound to
\* the list.
FallbackOverList ==
  /\ result = NoResult
  /\ result' = RespondFrom(conversation, user_text)
  /\ UNCHANGED <<conversation, user_text, gui_result>>
  /\ UNCHANGED <<sentimentVars, webVars, guiVars, trainVars>>

NextBuilder == FallbackOverList

SpecBuilder == InitBuilder /\ [][NextBuilder]_vars

(***************************************************************************)
(* The two sentiment classifiers called directly, on every score           *)
(***************************************************************************)

Compounds == (-ScoreSteps)..ScoreSteps

InitSentiment ==
  /\ scores \in {Scores(c) : c \in Compounds}
  /\ web_sentiment = NoSentiment
  /\ gui_sentiment = NoLabel
  /\ ResponderIdle /\ WebIdle /\ GuiIdle /\ TrainIdle

\* A call of app.py's analyze_sentiment.
AnalyzeSentiment ==
  /\ web_sentiment = NoSentiment
  /\ web_sentiment' = analyze_sentiment(scores)
  /\ UNCHANGED <<scores, gui_sentiment, responderVars, webVars, guiVars, trainVars>>

\* A call of main.py's get_sentiment_label.
GetSentimentLabel ==
  /\ gui_sentiment = NoLabel
  /\ gui_sentiment' = get_sentiment_label(scores)
  /\ UNCHANGED <<scores, web_sentiment, responderVars, webVars, guiVars, trainVars>>

NextSentiment == AnalyzeSentiment \/ GetSentimentLabel

SpecSentiment == InitSentiment /\ [][NextSentiment]_vars

(***************************************************************************)
(* The web server                                                          *)
(***************************************************************************)

\* The scores the scorer may give a message: the ends, the two thresholds
\* and the middle.
SampleCompounds ==
  {-ScoreSteps, -(ScoreSteps \div 2), 0, ScoreSteps \div 2, ScoreSteps}

\* What the retrieval bot may answer.
BotAnswers == {"I am a bot.", ResponseAt(1)}

\* The values a field of the body takes.
FieldValues ==
  {Absent, JStr(""), JStr("  "), JStr("hello"), JStr(" Thanks! "),
   JStr("hi-res fabric"), JNum("0"), JNum("7")}

\* The bodies: a JSON object with the two fields, a body get_json gives
\* None or a falsy value for, and a JSON value that is no object.
Bodies ==
  {[kind |-> "dict", message |-> m, text |-> t] :
     m \in FieldValues, t \in FieldValues}
  \cup {[kind |-> "falsy", message |-> Absent, text |-> Absent],
        [kind |-> "other", message |-> Absent, text |-> Absent]}

Envs ==
  {[compound |-> c, bot_raises |-> r, bot_answer |-> a] :
     c \in SampleCompounds, r \in BOOLEAN, a \in BotAnswers}

\* The module after its import-time code: ChatterBot imported and
\* initialised, or not.
Init ==
  /\ \/ use_chatterbot = TRUE /\ bot = "ChatBot"
     \/ use_chatterbot = FALSE /\ bot = "None"
  /\ request = NoBody
  /\ env = NoEnv
  /\ response = NoResponse
  /\ calls = <<>>
  /\ ResponderIdle /\ SentimentIdle /\ GuiIdle
  /\ server = "up"
  /\ trainer = (IF bot = "None" THEN "None" ELSE "ListTrainer")
  /\ flag_file = FALSE /\ gui_flag_file = FALSE /\ log = <<>>

\* A POST /api/chat arrives.
Post ==
  /\ request = NoBody
  /\ request' \in Bodies
  /\ env' \in Envs
  /\ response' = NoResponse
  /\ calls' = <<>>
  /\ UNCHANGED <<use_chatterbot, bot, responderVars, sentimentVars, guiVars, trainVars>>

\* chat_api serves it.
chat_api ==
  /\ request # NoBody
  /\ response = NoResponse
  /\ LET out == ChatApi(request, env)
     IN  /\ response' = out.response
         /\ calls' = out.calls
  /\ UNCHANGED <<use_chatterbot, bot, request, env>>
  /\ UNCHANGED <<responderVars, sentimentVars, guiVars, trainVars>>

\* The client has its response.
Deliver ==
  /\ response # NoResponse
  /\ request' = NoBody
  /\ env' = NoEnv
  /\ response' = NoResponse
  /\ calls' = <<>>
  /\ UNCHANGED <<use_chatterbot, bot, responderVars, sentimentVars, guiVars, trainVars>>

Next == Post \/ chat_api \/ Deliver

Spec == Init /\ [][Next]_vars

(***************************************************************************)
(* The desktop client                                                      *)
(***************************************************************************)

MaxExchanges == 1

\* What the user may have typed when submitting.
Typed == {" ", "hello", " Good morning ", "I love it"}

GuiEnvs ==
  {[compound |-> c, bot_raises |-> r, bot_answer |-> a, choice |-> i] :
     c \in SampleCompounds, r \in BOOLEAN, a \in BotAnswers,
     i \in 1..Len(POSITIVE_PROMPTS)}

\* The module after its import-time code, with the window open.
InitGui ==
  /\ gui_bot \in {"ChatBot", "None"}
  /\ entry = ""
  /\ gui_env = NoGuiEnv
  /\ msgs = <<>>
  /\ ResponderIdle /\ SentimentIdle /\ WebIdle /\ TrainIdle

\* The user types into the empty entry.
Type ==
  /\ entry = ""
  /\ Len(msgs) < 4 * MaxExchanges
  /\ entry' \in Typed
  /\ gui_env' \in GuiEnvs
  /\ UNCHANGED <<gui_bot, msgs, responderVars, sentimentVars, webVars, trainVars>>

\* The user presses Return or the button: ask_from_bot.
ask_from_bot ==
  /\ entry # ""
  /\ LET rows == AskFromBot(entry, gui_env)
     IN  /\ msgs' = msgs \o rows
         /\ entry' = IF rows = <<>> THEN entry ELSE ""
  /\ gui_env' = NoGuiEnv
  /\ UNCHANGED <<gui_bot, responderVars, sentimentVars, webVars, trainVars>>

NextGui == Type \/ ask_from_bot

SpecGui == InitGui /\ [][NextGui]_vars

(***************************************************************************)
(* Training: the starts of the two programs and POST /train                *)
(***************************************************************************)

MaxSteps == 3

\* trainer.train(...) and the flag file written after it: what the block
\* did, by whether train and the write raise.  "trained": trained and
\* flag written; "unflagged": trained, the write raised; "raised": train
\* raised.
TrainAndFlag(e) ==
  IF e.train_raises THEN "raised"
  ELSE IF e.flag_raises THEN "unflagged"
  ELSE "trained"

\* train_chatterbot_if_needed with the flag test left out.
train_chatterbot_if_needed_NoFlagTest(uc, b, t, flagged, e) ==
  IF ~uc \/ b = "None" \/ t = "None" THEN "unavailable"
  ELSE TrainAndFlag(e)

\* train_chatterbot_if_needed of app.py, on the module's use_chatterbot,
\* bot and trainer and on whether TRAIN_FLAG exists.
train_chatterbot_if_needed(uc, b, t, flagged, e) ==
  IF ~uc \/ b = "None" \/ t = "None" THEN "unavailable"
  ELSE IF flagged THEN "skipped"
  ELSE TrainAndFlag(e)

\* train of app.py (POST /train).
train(uc, t, e) ==
  IF ~uc \/ t = "None" THEN "unavailable" ELSE TrainAndFlag(e)

\* train_bot of main.py, on the module's bot and ListTrainer.
train_bot(b, lt, e) ==
  IF b = "None" \/ lt = "None" THEN "unavailable" ELSE TrainAndFlag(e)

\* The end of main.py's import-time code: train_bot unless its TRAIN_FLAG
\* exists.
TrainUnlessFlagged(b, lt, flagged, e) ==
  IF flagged THEN "skipped" ELSE train_bot(b, lt, e)

\* What may happen during a start or a POST /train: the chatterbot import
\* and the ChatBot construction succeed or not, train and the write of the
\* flag file raise or not.
StartEnvs ==
  [import_ok : BOOLEAN, init_ok : BOOLEAN,
   train_raises : BOOLEAN, flag_raises : BOOLEAN]

\* ChatBot, or None, after the import and the construction.
Instance(name, e) == IF e.import_ok /\ e.init_ok THEN name ELSE "None"

\* Nothing has been started and no flag file exists.
InitTrain ==
  ResponderIdle /\ SentimentIdle /\ WebIdle /\ GuiIdle /\ TrainIdle

\* A step of the given kind did this: it is added to the log.
Logged(by, did) == log' = Append(log, [by |-> by, did |-> did])

\* The import-time code of app.py.
ServerStart ==
  /\ Len(log) < MaxSteps
  /\ \E e \in StartEnvs, did \in {"unavailable", "skipped", "raised",
                                  "unflagged", "trained"} :
        /\ use_chatterbot' = (e.import_ok /\ e.init_ok)
        /\ bot' = Instance("ChatBot", e)
        /\ trainer' = Instance("ListTrainer", e)
        /\ did = train_chatterbot_if_needed(use_chatterbot', bot', trainer',
                                            flag_file, e)
        /\ flag_file' = (flag_file \/ did = "trained")
        /\ Logged("server", did)
  /\ server' = "up"
  /\ UNCHANGED <<request, env, response, calls, gui_flag_file>>
  /\ UNCHANGED <<responderVars, sentimentVars, guiVars>>

\* POST /train on the running server.
PostTrain ==
  /\ Len(log) < MaxSteps
  /\ server = "up"
  /\ \E e \in StartEnvs, did \in {"unavailable", "raised", "unflagged",
                                  "trained"} :
        /\ did = train(use_chatterbot, trainer, e)
        /\ flag_file' = (flag_file \/ did = "trained")
        /\ Logged("train", did)
  /\ UNCHANGED <<server, trainer, gui_flag_file>>
  /\ UNCHANGED <<responderVars, sentimentVars, webVars, guiVars>>

\* The import-time code of main.py.
GuiStart ==
  /\ Len(log) < MaxSteps
  /\ \E e \in StartEnvs, did \in {"unavailable", "skipped", "raised",
                                  "unflagged", "trained"} :
        /\ gui_bot' = Instance("ChatBot", e)
        /\ did = TrainUnlessFlagged(gui_bot',
                                    IF e.import_ok THEN "ListTrainer" ELSE "None",
                                    gui_flag_file, e)
        /\ gui_flag_file' = (gui_flag_file \/ did = "trained")
        /\ Logged("gui", did)
  /\ UNCHANGED <<entry, gui_env, msgs, server, trainer, flag_file>>
  /\ UNCHANGED <<responderVars, sentimentVars, webVars>>

NextTrain == ServerStart \/ PostTrain \/ GuiStart

SpecTrain == InitTrain /\ [][NextTrain]_vars

(***************************************************************************)
(* Properties of the fallback responders                                   *)
(***************************************************************************)

\* c and d are the same character or the two cases of one letter.
SameLetter(c, d) ==
  \/ c = d
  \/ \E i \in 1..26 : {c, d} = {UpperLetters[i], LowerLetters[i]}

\* t is prompt with its letters in any case and whitespace around it.
IsVariation(t, prompt) ==
  /\ Len(t) >= Len(prompt)
  /\ \E l \in 0..(Len(t) - Len(prompt)) :
        /\ \A i \in 1..l : t[i] \in Whitespace
        /\ \A i \in (l + Len(prompt) + 1)..Len(t) : t[i] \in Whitespace
        /\ \A i \in 1..Len(prompt) : SameLetter(t[l + i], prompt[i])

\* C1: for every prompt of the conversation list, every input that is the
\* prompt up to letter case and surrounding whitespace is answered by the
\* exact-match rule with the response paired with that prompt.
C1_ExactMatchReturnsPairedResponse ==
  result # NoResult =>
    \A p \in PromptIndexes :
       IsVariation(Chars(user_text), Chars(PromptAt(p))) =>
          result = [rule |-> "exact", reply |-> ResponseAt(p)]

\* A call answered for a prompt that was padded and written in upper case.
C1_Witness ==
  /\ result # NoResult
  /\ \E p \in PromptIndexes :
        /\ IsVariation(Chars(user_text), Chars(PromptAt(p)))
        /\ Len(user_text) > Len(PromptAt(p))
        /\ Chars(user_text) = Upper(Chars(user_text))
        /\ result.reply = ResponseAt(p)

\* The similarity of every key of the mapping to the normalized input, as
\* SequenceMatcher(a=key, b=input).ratio().
Similarity(key) == [k \in DOMAIN Mapping |-> ratio(k, key)]

\* Some key reaches similarity 0.6.
Reaches(sim) == \E k \in DOMAIN sim : 10 * sim[k][1] >= 6 * sim[k][2]

\* k is the closest key: no key is more similar, and of the keys as
\* similar k is the greatest in str order.
Closest(sim, k) ==
  \A k2 \in DOMAIN sim \ {k} :
     \/ sim[k][1] * sim[k2][2] > sim[k2][1] * sim[k][2]
     \/ sim[k][1] * sim[k2][2] = sim[k2][1] * sim[k][2] /\ StrLess(k2, k)

\* C3: for an input whose normalized form is no key, if some key has
\* similarity >= 0.6 the reply is the response of the closest key (among
\* equally close keys, of the greatest), by the fuzzy rule; if no key
\* reaches 0.6 the reply comes from the keyword rules or the apology.
C3_FuzzyReturnsClosestKey ==
  (result # NoResult /\ UserKey(user_text) \notin DOMAIN Mapping) =>
    LET sim == Similarity(UserKey(user_text))
    IN  IF Reaches(sim)
        THEN /\ result.rule = "fuzzy"
             /\ \E k \in DOMAIN sim :
                   /\ 10 * sim[k][1] >= 6 * sim[k][2]
                   /\ Closest(sim, k)
                   /\ result.reply = Mapping[k]
        ELSE result.rule \in {"greeting", "thanks", "return", "generic"}

\* A fuzzy answer for an input whose closest key is at similarity 0.6
\* exactly.
C3_Witness ==
  /\ result.rule = "fuzzy"
  /\ UserKey(user_text) \notin DOMAIN Mapping
  /\ LET sim == Similarity(UserKey(user_text))
     IN  \A k \in DOMAIN sim : 10 * sim[k][1] <= 6 * sim[k][2]

\* The input, in lower case, contains the word.
InputHas(word) == Contains(Lower(Chars(user_text)), Chars(word))

Greets == InputHas("hi") \/ InputHas("hello") \/ InputHas("hey")
Thanks == InputHas("thank") \/ InputHas("thanks")
Returns == InputHas("return") \/ InputHas("refund")

\* C4: the rules apply in the order exact, fuzzy, greeting, thanks,
\* return/refund, apology, and the first that matches answers: an input with
\* "hi", "hello" or "hey" and no exact or fuzzy match gets the response of
\* "hello", whatever other keywords it has, and the apology is the answer
\* exactly when no rule matches.
C4_RulesInPriorityOrder ==
  result # NoResult =>
    LET key   == UserKey(user_text)
        exact == key \in DOMAIN Mapping
        fuzzy == Reaches(Similarity(key))
    IN  /\ exact => result.rule = "exact"
        /\ (~exact /\ fuzzy) => result.rule = "fuzzy"
        /\ (~exact /\ ~fuzzy /\ Greets) =>
              result = [rule |-> "greeting", reply |-> ResponseAt(1)]
        /\ (~exact /\ ~fuzzy /\ ~Greets /\ Thanks) =>
              result = [rule |-> "thanks", reply |-> Mapping[Chars("thank you")]]
        /\ (~exact /\ ~fuzzy /\ ~Greets /\ ~Thanks /\ Returns) =>
              result = [rule |-> "return",
                        reply |-> Mapping[Chars("can i return an item?")]]
        /\ (result.reply = Apology) <=>
              (~exact /\ ~fuzzy /\ ~Greets /\ ~Thanks /\ ~Returns)

\* A greeting answered although the input also thanks or asks for a refund.
C4_Witness ==
  /\ result.rule = "greeting"
  /\ result.reply = ResponseAt(1)
  /\ Thanks \/ Returns

\* Every character of the input is whitespace (the empty input included).
Blank(text) == \A i \in 1..Len(text) : Chars(text)[i] \in Whitespace

\* C5: the empty input and every whitespace-only input get the apology, and
\* every input gets a non-empty reply without an exception.
C5_BlankInputGetsApology ==
  result # NoResult =>
    /\ Blank(user_text) => result = [rule |-> "generic", reply |-> Apology]
    /\ result.rule # "raise"
    /\ result.reply # ""

\* A whitespace-only input answered.
C5_Witness ==
  /\ result # NoResult
  /\ user_text # ""
  /\ Blank(user_text)

\* C9: for every input, main.py's fallback responder returns the reply
\* app.py's returns.
C9_GuiFallbackSameAsWeb ==
  (result # NoResult /\ gui_result # "none") => gui_result = result.reply

PairedPrompts(conv) == {i \in 1..(Len(conv) - 1) : i % 2 = 1}

C6_LabelByInclusiveThresholds ==
  /\ web_sentiment # NoSentiment =>
        /\ web_sentiment.label = "Positive" <=> scores.compound * 2 >= ScoreSteps
        /\ web_sentiment.label = "Negative" <=> scores.compound * 2 <= -ScoreSteps
        /\ web_sentiment.label = "Neutral" <=>
              (-ScoreSteps < scores.compound * 2 /\ scores.compound * 2 < ScoreSteps)
        /\ web_sentiment.score = scores.compound
  /\ gui_sentiment # NoLabel =>
        /\ gui_sentiment[1] = "Positive" <=> scores.compound * 2 >= ScoreSteps
        /\ gui_sentiment[1] = "Negative" <=> scores.compound * 2 <= -ScoreSteps
        /\ gui_sentiment[2] = scores.compound
  /\ (web_sentiment # NoSentiment /\ gui_sentiment # NoLabel) =>
        gui_sentiment = <<web_sentiment.label, web_sentiment.score>>

\* Both classifiers have labelled a score of exactly 0.5 Positive.
C6_Witness ==
  /\ scores.compound * 2 = ScoreSteps
  /\ web_sentiment.label = "Positive"
  /\ gui_sentiment = <<"Positive", scores.compound>>

(***************************************************************************)
(* Properties of POST /api/chat                                            *)
(***************************************************************************)

\* The message of a request, read off its body: the message field, or the
\* text field when the message field is absent, null, empty or zero; absent
\* when the body is no JSON object.
MessageOf(body) ==
  IF body.kind # "dict" THEN Absent
  ELSE IF body.message.type = "null" \/ body.message.v \in {"", "0"}
       THEN body.text
       ELSE body.message

\* A message that is missing, empty or whitespace-only.
NoMessage(m) == m.type = "null" \/ (m.type = "str" /\ Blank(m.v))

\* text with its leading and trailing whitespace removed, read off the
\* text: a piece of it with only whitespace before and after and none at
\* its two ends.
Trimmed(text, t) ==
  \E i \in 1..(Len(text) + 1), j \in 0..Len(text) :
     /\ t = SubSeq(text, i, j)
     /\ Blank(SubSeq(text, 1, i - 1))
     /\ Blank(SubSeq(text, j + 1, Len(text)))
     /\ i <= j => ~Blank(SubSeq(text, i, i)) /\ ~Blank(SubSeq(text, j, j))

\* C7: a request whose message is missing, empty or whitespace-only gets
\* the 400 "no message provided" response and no call of analyze_sentiment,
\* of the bot or of fallback_get_response is made; for every other request
\* every call is passed the trimmed, non-empty text.
C7_NoMessageIsRejectedWith400 ==
  response # NoResponse =>
    /\ NoMessage(MessageOf(request)) =>
          /\ response.status = 400
          /\ response.error = "no message provided"
          /\ calls = <<>>
    /\ ~NoMessage(MessageOf(request)) =>
          \A n \in 1..Len(calls) :
             /\ calls[n].arg # ""
             /\ Trimmed(MessageOf(request).v, calls[n].arg)

\* The request is accepted: its message is a str that is not blank.
IsAccepted(body) ==
  MessageOf(body).type = "str" /\ ~Blank(MessageOf(body).v)

\* C8: an accepted request is answered with status 200; its reply is the
\* bot's answer when the bot is available and get_response returns, and
\* the fallback responder's reply to the same message when the bot is
\* unavailable or get_response raises; it is never unset; and its sentiment
\* is that of the score, whichever of the two gave the reply.
C8_ReplyFromBotOrFallback ==
  (response # NoResponse /\ IsAccepted(request)) =>
    /\ response.status = 200
    /\ response.reply # None
    /\ (use_chatterbot /\ bot # "None" /\ ~env.bot_raises) =>
          /\ response.reply = env.bot_answer
          /\ calls[Len(calls)] = Call("get_response", calls[1].arg)
    /\ ~(use_chatterbot /\ bot # "None" /\ ~env.bot_raises) =>
          /\ calls[Len(calls)].fn = "fallback_get_response"
          /\ response.reply = fallback_get_response(calls[Len(calls)].arg).reply
          /\ Trimmed(MessageOf(request).v, calls[Len(calls)].arg)
    /\ response.sentiment.score = env.compound
    /\ response.sentiment.label =
         IF env.compound * 2 >= ScoreSteps THEN "Positive"
         ELSE IF env.compound * 2 <= -ScoreSteps THEN "Negative"
         ELSE "Neutral"

\* An accepted request answered by the fallback responder after
\* get_response raised.
C8_Witness ==
  /\ response.status = 200
  /\ use_chatterbot /\ bot # "None" /\ env.bot_raises
  /\ Len(calls) = 3
  /\ calls[3].fn = "fallback_get_response"
  /\ response.reply # env.bot_answer

(***************************************************************************)
(* Properties of the desktop client                                        *)
(***************************************************************************)

\* The message starts with a remark of the pool and a newline.
Prefaced(message, pool) ==
  \E i \in 1..Len(pool) :
     /\ Len(message) > Len(pool[i])
     /\ SubSeq(message, 1, Len(pool[i]) + 1) = pool[i] \o "\n"

\* C10: the Bot row of every submission starts with a remark of
\* POSITIVE_PROMPTS when the input is Positive, with one of NEGATIVE_PROMPTS
\* when it is Negative, and with no remark when it is Neutral, on every
\* path of ask_from_bot.
C10_RemarkOfTheLabelOnEveryPath ==
  \A n \in 3..Len(msgs) :
     (msgs[n].sender = "Bot" /\ msgs[n - 2].sender = "You") =>
        /\ msgs[n - 2].tag[1] = "Positive" =>
              /\ Prefaced(msgs[n].message, POSITIVE_PROMPTS)
              /\ ~Prefaced(msgs[n].message, NEGATIVE_PROMPTS)
        /\ msgs[n - 2].tag[1] = "Negative" =>
              /\ Prefaced(msgs[n].message, NEGATIVE_PROMPTS)
              /\ ~Prefaced(msgs[n].message, POSITIVE_PROMPTS)
        /\ msgs[n - 2].tag[1] = "Neutral" =>
              /\ ~Prefaced(msgs[n].message, POSITIVE_PROMPTS)
              /\ ~Prefaced(msgs[n].message, NEGATIVE_PROMPTS)

(***************************************************************************)
(* Properties of the training                                              *)
(***************************************************************************)

\* The step called trainer.train.
Attempted(step) == step.did \in {"trained", "unflagged", "raised"}

\* The step ran trainer.train to its end.
Trained(step) == step.did \in {"trained", "unflagged"}

\* The step completed a training run and wrote its flag file.
Completed(step) == step.did = "trained"

\* A flag file exists only if a step of its program completed a training
\* run.
FlagsOnlyAfterTraining ==
  /\ flag_file =>
        \E i \in 1..Len(log) :
           log[i].by \in {"server", "train"} /\ Completed(log[i])
  /\ gui_flag_file =>
        \E i \in 1..Len(log) : log[i].by = "gui" /\ Completed(log[i])

\* C11 as claimed: once a training run has completed and its flag file has
\* been written, no later start and no later POST /train trains the bot
\* again; and a flag file exists only if a training run completed.
C11_SeededOnce ==
  /\ \A i, j \in 1..Len(log) :
        (i < j /\ Completed(log[i])) => ~Trained(log[j])
  /\ FlagsOnlyAfterTraining

\* C11 (amended): once a training run of the server, at a start or by
\* POST /train, has completed and written its flag file, no later server
\* start trains again, and once a training run of a GUI start has completed
\* and written its flag file, no later GUI start trains again; and a flag
\* file exists only if a training run of its program completed.
C11_SeededOncePerProgramStart ==
  /\ \A i, j \in 1..Len(log) :
        (i < j /\ Completed(log[i])) =>
           /\ (log[i].by \in {"server", "train"} /\ log[j].by = "server") =>
                 ~Attempted(log[j])
           /\ (log[i].by = "gui" /\ log[j].by = "gui") => ~Attempted(log[j])
  /\ FlagsOnlyAfterTraining

\* A server start that found the bot available and skipped the training,
\* after a server start that trained and wrote the flag.
C11_Witness ==
  \E i, j \in 1..Len(log) :
     /\ i < j
     /\ log[i] = [by |-> "server", did |-> "trained"]
     /\ log[j] = [by |-> "server", did |-> "skipped"]
     /\ flag_file

====
